---- MODULE Spec2Model ----
(***************************************************************************)
(* The retrieval-augmented chat subsystem of MAAS-FastAPI (app/rag):       *)
(* the metadata store (Mongo collection vectorstore_metadata), the chat    *)
(* history store (Mongo collection chat_histories, documents keyed by      *)
(* session_id), the vector index (Qdrant collections), and the two         *)
(* endpoints /rag/initialization and /rag/chat, each modelled as a         *)
(* request that walks through its external calls one step at a time.       *)
(*                                                                         *)
(* Modelling conventions                                                   *)
(*  - str(uuid.uuid4()) is a fresh identifier: chat ids are "u1", "u2",   *)
(*    ... drawn from the counter uuids; the point ids of one ingestion run *)
(*    are the pairs <<chat id of the run, chunk index>>.                   *)
(*  - time.time() / datetime.utcnow() read the wall clock now, which the   *)
(*    action Tick advances.                                                *)
(*  - None is the string NoneStr; Truthy is Python's truth test on an      *)
(*    optional string.                                                     *)
(*  - The Mongo primitives succeed; the embedding provider, the Qdrant     *)
(*    recreate and upsert calls, the summarization LLM and the RAG chain   *)
(*    may fail.                                                            *)
(*  - The langchain memory of the chain writes documents keyed by          *)
(*    "SessionId" into the same Mongo collection; ChatHistoryManager only  *)
(*    reads and writes documents keyed by "session_id", so those           *)
(*    documents are not part of the state here.                            *)
(***************************************************************************)
EXTENDS Integers, Sequences, FiniteSets, TLC

\* ------------------------------------------------------------------ bounds

\* Number of chat ids that may be minted while requests are served at the
\* same time.
MaxRaceUuid == 2

\* Number of chat ids that may be minted while initialization and chat
\* requests are served at the same time.
MaxMixUuid == 1

\* Number of messages a session may hold while add_message and
\* summarize_if_needed are called at the same time.
MaxCrossUuid == 2
MaxChunks == 8
MaxBatchSize == 4
MaxRaceMessages == 4

\* Number of str(uuid.uuid4()) chat ids that may be minted.
MaxUuid == 3

\* Largest value of the wall clock.
MaxClock == 1

\* ChatSpec starts a chat turn only on a session that holds fewer messages.
MaxHistory == 2

\* ------------------------------------------------------- program constants

\* routes.py:228, max_retries of safe_upsert.
max_retries == 3

\* routes.py:250, getattr(settings, "qdrant_upsert_batch_size", 64); Settings
\* declares no such field, so the default is always used.
batch_size == 64

\* routes.py:363, threshold passed by chat_with_user.
chat_threshold == 10

\* Dimension of the vectors a working embedding provider returns.
EmbDim == 3

\* HistSpec calls add_message only on a session that holds fewer messages:
\* a session grows to one message more than the endpoint's threshold.
MaxMessages == chat_threshold + 1

\* ------------------------------------------------------------------ values

NoneStr == "<None>"

Truthy(s) == s \notin {NoneStr, ""}

\* Mutant of PyOr: the stored value is ignored, a new one is always taken.
PyOr_AlwaysNew(x, y) == y

\* x or y, on optional strings
PyOr(x, y) == IF Truthy(x) THEN x ELSE y

\* The (onboarding_id, doc_type) pairs requests are made for.  The two
\* share the collection name vs_t_page_speed.
Keys == {<<"t", "page_speed">>, <<"t_page", "speed">>}

\* settings.qdrant_url, settings.qdrant_api_key (required fields of Settings)
SettingsQdrantUrl == "http://qdrant:6333"

SettingsQdrantApiKey == "key"

\* Mutant of CollectionName: one collection for every pair.
CollectionName_Shared(onboarding_id, doc_type) == "vs_default"

\* f"vs_{onboarding_id}_{doc_type}"
CollectionName(onboarding_id, doc_type) == "vs_" \o onboarding_id \o "_" \o doc_type

\* f"qdrant://{onboarding_id}/{doc_type}"
get_vectorstore_path(onboarding_id, doc_type) == "qdrant://" \o onboarding_id \o "/" \o doc_type

\* save_vectorstore_to_disk only returns the logical path.
save_vectorstore_to_disk(onboarding_id, doc_type, collection_name, qdrant_url, qdrant_api_key) ==
    get_vectorstore_path(onboarding_id, doc_type)

\* str(uuid.uuid4()) for the n-th call
UuidStr(n) == "u" \o ToString(n)

\* The document lists of SetupRequest.documents: none, one blank document,
\* one short document, another short document, one long document.
DocumentLists == {<<>>, <<"">>, <<"A">>, <<"B">>, <<"L">>}

RECURSIVE JoinDocs(_)
\* "\n\n".join(documents)
JoinDocs(docs) ==
    IF Len(docs) = 0 THEN ""
    ELSE IF Len(docs) = 1 THEN docs[1]
    ELSE docs[1] \o "\n\n" \o JoinDocs(Tail(docs))

\* text_splitter.split_text: the blank text gives no chunk, a short text one
\* chunk, the long text one chunk more than a batch holds.  Chunk i of a
\* text is <<text, i>>.
NumChunks(text) == IF text = "" THEN 0 ELSE IF text = "L" THEN batch_size + 1 ELSE 1

SplitText(text) == [i \in 1..NumChunks(text) |-> <<text, i>>]

\* What the embedding provider does with the chunks: "ok" is one vector of
\* EmbDim per chunk in order, "raise" an exception, "empty" no vectors,
\* "short" one vector too few, "long" one too many, "zerodim" a first
\* vector of length 0.
EmbedOutcomes == {"ok", "raise", "empty", "short", "long", "zerodim"}

Vec(chunk, size) == [of |-> chunk, size |-> size]

\* _get_embeddings_for_texts
get_embeddings_for_texts(texts, outcome) ==
    IF Len(texts) = 0 THEN <<>>
    ELSE CASE outcome = "ok"      -> [i \in 1..Len(texts) |-> Vec(texts[i], EmbDim)]
           [] outcome = "empty"   -> <<>>
           [] outcome = "short"   -> [i \in 1..(Len(texts) - 1) |-> Vec(texts[i], EmbDim)]
           [] outcome = "long"    -> [i \in 1..(Len(texts) + 1) |->
                                        Vec(texts[IF i > Len(texts) THEN 1 ELSE i], EmbDim)]
           [] outcome = "zerodim" -> [i \in 1..Len(texts) |->
                                        Vec(texts[i], IF i = 1 THEN 0 ELSE EmbDim)]
           [] OTHER               -> <<>>

\* Mutant of BadShape: only an empty list of vectors is refused.
BadShape_OnlyEmpty(vectors, text_chunks) == Len(vectors) = 0

\* routes.py:202, the shape test on the vectors
BadShape(vectors, text_chunks) == Len(vectors) = 0 \/ Len(vectors) # Len(text_chunks)

\* routes.py:210
VectorSize(vectors) == IF Len(vectors) > 0 THEN vectors[1].size ELSE 0

\* Mutant of Point: every point of a run gets the id of its first point.
Point_OneId(run, i, vec, txt) == [id |-> <<run, 1>>, vector |-> vec, text |-> txt]

\* PointStruct(id=str(uuid.uuid4()), vector=vec, payload={"text": txt}) for
\* item i of zip(vectors, text_chunks) in the run that minted chat id run.
Point(run, i, vec, txt) == [id |-> <<run, i>>, vector |-> vec, text |-> txt]

Min(a, b) == IF a < b THEN a ELSE b

\* Mutant of NextBackoff: the wait stays what it was.
NextBackoff_Same(backoff) == backoff

\* routes.py:245, backoff *= 2.0
NextBackoff(backoff) == backoff * 2

\* Mutant of BatchesFrom: all the points go into one batch.
BatchesFrom_OneBatch(points, batch, size) ==
    IF Len(points) = 0 THEN <<>> ELSE <<batch \o points>>

\* routes.py:254-269: the points in zip order, flushed whenever the batch
\* holds batch_size points, and once more at the end if points are left.
RECURSIVE BatchesFrom(_, _, _)
BatchesFrom(points, batch, size) ==
    IF Len(points) = 0
    THEN IF Len(batch) > 0 THEN <<batch>> ELSE <<>>
    ELSE LET b == Append(batch, Head(points))
         IN  IF Len(b) >= size
             THEN <<b>> \o BatchesFrom(Tail(points), <<>>, size)
             ELSE BatchesFrom(Tail(points), b, size)

MakePoints(run, vectors, text_chunks) ==
    [i \in 1..Min(Len(vectors), Len(text_chunks)) |-> Point(run, i, vectors[i], text_chunks[i])]

Range(s) == {s[i] : i \in DOMAIN s}

\* ------------------------------------------------------------------ stores

\* Mutant of upsert_vectorstore_metadata: the optional fields are written
\* whether they were supplied or not.
upsert_vectorstore_metadata_SetAll(m, key, vectorstore_path, chat_id, collection_name, qdrant_url, qdrant_api_key, t) ==
    [k \in DOMAIN m \cup {key} |->
        IF k = key
        THEN [onboarding_id |-> key[1], doc_type |-> key[2],
              vectorstore_path |-> vectorstore_path, chat_id |-> chat_id,
              collection_name |-> collection_name, qdrant_url |-> qdrant_url,
              qdrant_api_key |-> qdrant_api_key,
              created_at |-> IF key \in DOMAIN m THEN m[key].created_at ELSE t,
              updated_at |-> t]
        ELSE m[k]]

\* vectorstore_meta_coll.update_one({onboarding_id, doc_type},
\*   {"$set": update, "$setOnInsert": {"created_at": now}}, upsert=True)
upsert_vectorstore_metadata(m, key, vectorstore_path, chat_id, collection_name, qdrant_url, qdrant_api_key, t) ==
    LET old == IF key \in DOMAIN m
               THEN m[key]
               ELSE [onboarding_id |-> key[1], doc_type |-> key[2],
                     vectorstore_path |-> NoneStr, chat_id |-> NoneStr,
                     collection_name |-> NoneStr, qdrant_url |-> NoneStr,
                     qdrant_api_key |-> NoneStr, created_at |-> t, updated_at |-> t]
        new == [old EXCEPT !.onboarding_id = key[1],
                           !.doc_type = key[2],
                           !.vectorstore_path = vectorstore_path,
                           !.chat_id = chat_id,
                           !.updated_at = t,
                           !.collection_name = IF Truthy(collection_name) THEN collection_name ELSE @,
                           !.qdrant_url = IF Truthy(qdrant_url) THEN qdrant_url ELSE @,
                           !.qdrant_api_key = IF Truthy(qdrant_api_key) THEN qdrant_api_key ELSE @]
    IN  [k \in DOMAIN m \cup {key} |-> IF k = key THEN new ELSE m[k]]

\* Mutant of HasMeta: the record is never found.
HasMeta_Never(m, key) == FALSE

\* get_vectorstore_metadata(...) is truthy
HasMeta(m, key) == key \in DOMAIN m

\* Mutant of chat_exists: every chat id is taken to exist.
chat_exists_Always(s, chat_id) == TRUE

\* ChatHistoryManager.chat_exists
chat_exists(s, chat_id) == chat_id \in DOMAIN s

\* Mutant of create_session: no session is created.
create_session_Never(s, chat_id) == s

\* Mutant of create_session: the message list is set to empty on every call.
create_session_Reset(s, chat_id) ==
    [c \in DOMAIN s \cup {chat_id} |-> IF c = chat_id THEN <<>> ELSE s[c]]

\* ChatHistoryManager.create_session: $setOnInsert of an empty list, upsert
create_session(s, chat_id) ==
    IF chat_id \in DOMAIN s THEN s
    ELSE [c \in DOMAIN s \cup {chat_id} |-> IF c = chat_id THEN <<>> ELSE s[c]]

\* ChatHistoryManager.get_messages
get_messages(s, chat_id) == IF chat_id \in DOMAIN s THEN s[chat_id] ELSE <<>>

\* Mutant of Entry: every entry is stored with role ai.
Entry_AlwaysAi(role, content, t) == [type |-> "ai", content |-> content, timestamp |-> t]

Entry(role, content, t) == [type |-> role, content |-> content, timestamp |-> t]

\* Mutant of add_message: the entry goes to the first session minted.
add_message_ToFirst(s, chat_id, role, content, t) ==
    IF UuidStr(1) \in DOMAIN s
    THEN [s EXCEPT ![UuidStr(1)] = Append(@, Entry(role, content, t))]
    ELSE s

\* Mutant of add_message: the entry is appended twice.
add_message_Twice(s, chat_id, role, content, t) ==
    IF chat_id \in DOMAIN s
    THEN [s EXCEPT ![chat_id] = @ \o <<Entry(role, content, t), Entry(role, content, t)>>]
    ELSE s

\* Mutant of add_message: the entry is put in front of the stored messages.
add_message_Prepend(s, chat_id, role, content, t) ==
    IF chat_id \in DOMAIN s
    THEN [s EXCEPT ![chat_id] = <<Entry(role, content, t)>> \o @]
    ELSE s

\* Mutant of add_message: a message equal in role and content to the last
\* stored one is not stored again.
add_message_Dedupe(s, chat_id, role, content, t) ==
    IF chat_id \in DOMAIN s
    THEN IF /\ Len(s[chat_id]) > 0
            /\ s[chat_id][Len(s[chat_id])].type = role
            /\ s[chat_id][Len(s[chat_id])].content = content
         THEN s
         ELSE [s EXCEPT ![chat_id] = Append(@, Entry(role, content, t))]
    ELSE s

\* ChatHistoryManager.add_message: $push on the session's document; an
\* update_one without upsert leaves a missing session missing.
add_message(s, chat_id, role, content, t) ==
    IF chat_id \in DOMAIN s
    THEN [s EXCEPT ![chat_id] = Append(@, Entry(role, content, t))]
    ELSE s

\* Mutant of NeedsSummary: a session that starts with an ai entry, as a
\* collapsed one does, is not summarized again.
NeedsSummary_NotAgain(messages, threshold) ==
    Len(messages) > threshold /\ messages[1].type # "ai"

\* Mutant of NeedsSummary: a session at the threshold is summarized too.
NeedsSummary_AtLeast(messages, threshold) == Len(messages) >= threshold

\* ChatHistoryManager.summarize_if_needed, the length test
NeedsSummary(messages, threshold) == Len(messages) > threshold

\* Mutant of replace_with_summary: the last stored message is kept after
\* the summary.
replace_with_summary_KeepLast(s, chat_id, summary, t) ==
    IF chat_id \in DOMAIN s
    THEN [s EXCEPT ![chat_id] = <<Entry("ai", summary, t), @[Len(@)]>>]
    ELSE s

\* Mutant of replace_with_summary: the summary is put in front of the
\* stored messages, which are kept.
replace_with_summary_KeepAll(s, chat_id, summary, t) ==
    IF chat_id \in DOMAIN s
    THEN [s EXCEPT ![chat_id] = <<Entry("ai", summary, t)>> \o @]
    ELSE s

\* ChatHistoryManager.summarize_if_needed, find_one_and_update replacing the
\* whole array by one ai entry (no upsert)
replace_with_summary(s, chat_id, summary, t) ==
    IF chat_id \in DOMAIN s
    THEN [s EXCEPT ![chat_id] = <<Entry("ai", summary, t)>>]
    ELSE s

\* Mutant of recreate_collection: an existing collection is kept as it is.
recreate_collection_Keep(c, name, size) ==
    IF name \in DOMAIN c THEN c
    ELSE [n \in DOMAIN c \cup {name} |->
            IF n = name THEN [size |-> size, points |-> {}] ELSE c[n]]

\* qdrant_client.recreate_collection: drop what the name held, create empty
recreate_collection(c, name, size) ==
    [n \in DOMAIN c \cup {name} |->
        IF n = name THEN [size |-> size, points |-> {}] ELSE c[n]]

\* qdrant_client.delete_collection, the first half of recreate_collection
delete_collection(c, name) == [n \in DOMAIN c \ {name} |-> c[n]]

\* What a failed recreate_collection may have done: nothing, the delete
\* without the create, or all of it (the response was lost).
RecreateFailures(c, name, size) ==
    {c, delete_collection(c, name), recreate_collection(c, name, size)}

\* Mutant of upsert_points: the points are accepted and not stored.
upsert_points_Dropped(c, name, ps) == c

\* qdrant_client.upsert of the point set ps: a point replaces the stored
\* point of the same id
upsert_points(c, name, ps) ==
    [c EXCEPT ![name].points = {q \in @ : \A x \in ps : x.id # q.id} \cup ps]

\* ------------------------------------------------------------------- state

\* Request slots (each a request being served by the application).
Procs == {1, 2}

VARIABLES
    meta,         \* metadata store: (onboarding_id, doc_type) -> record
    sessions,     \* chat history store: session_id -> messages
    collections,  \* vector index: collection name -> [size, points]
    now,          \* wall clock
    uuids,        \* number of chat ids minted so far
    pc,           \* per request slot: the step it is at
    req,          \* per request slot: the request being served
    loc,          \* per request slot: the handler's local variables
    result,       \* per request slot: the response, once the handler ended
    snap,         \* per request slot: the stores as they were when the request arrived
    initOk,       \* pairs for which an initialization call has returned success
    calls         \* per session: the (role, content) of the direct add_message
                  \* calls made since the session was created or last collapsed

vars == <<meta, sessions, collections, now, uuids, pc, req, loc, result, snap, initOk, calls>>

stores == <<meta, sessions, collections>>

EmptyFn == [x \in {} |-> x]

NoReq ==
    [op |-> "none", onboarding_id |-> "", doc_type |-> "", documents |-> <<>>,
     chat_id |-> "", question |-> "", role |-> "", threshold |-> 0,
     vectorstore_path |-> "", collection_name |-> "", qdrant_url |-> "",
     qdrant_api_key |-> "", chunks |-> 0, batch_size |-> 0]

NoLoc ==
    [chat_id |-> NoneStr, metadata |-> EmptyFn, text_chunks |-> <<>>, vectors |-> <<>>,
     batches |-> <<>>, bi |-> 0, attempt |-> 0, backoff |-> 0, waits |-> <<>>,
     qdrant_writes |-> 0, messages |-> <<>>, question |-> "", answer |-> NoneStr,
     collection_name |-> NoneStr, embed_outcome |-> "none",
     partial |-> FALSE]

NoResult == [status |-> 0, detail |-> "", chat_id |-> NoneStr, answer |-> NoneStr,
             vectorstore_path |-> NoneStr, messages |-> <<>>]

NoSnap == [meta |-> EmptyFn, sessions |-> EmptyFn, collections |-> EmptyFn, initOk |-> {}]

\* The stores as they are now.
Snapshot == [meta |-> meta, sessions |-> sessions, collections |-> collections,
             initOk |-> initOk]

\* utils.py:264-271: the detail of build_rag_chain's refusal without a record.
BuildNotFoundDetail == "Vectorstore metadata not found; run initialization first. Call POST /rag/initialization/{onboarding_id}/{doc_type} with documents to ingest."

\* Mutant of HTTPException: the error is answered with status 200.
HTTPException_Ok(status_code, detail) ==
    [NoResult EXCEPT !.status = 200, !.detail = detail]

\* raise HTTPException(status_code, detail)
HTTPException(status_code, detail) ==
    [NoResult EXCEPT !.status = status_code, !.detail = detail]

\* SetupResponse(success=True, ...)
SetupResponse(message, chat_id, vectorstore_path) ==
    [NoResult EXCEPT !.status = 200, !.detail = message, !.chat_id = chat_id,
                     !.vectorstore_path = vectorstore_path]

\* ChatResponse(success=True, answer=..., chat_id=...)
ChatResponse(answer, chat_id) ==
    [NoResult EXCEPT !.status = 200, !.detail = "ok", !.chat_id = chat_id, !.answer = answer]

KeyOf(r) == <<r.onboarding_id, r.doc_type>>

\* The chat ids a client may send: every id that can be minted, and one
\* that never is.
ChatIdInputs == {UuidStr(n) : n \in 1..MaxUuid} \cup {"nope"}

\* ChatRequest.question as sent
Questions == {"", "  ", "hi", " hi "}

\* Mutant of Strip: the question is used as sent.
Strip_Nothing(q) == q

\* str.strip()
Strip(q) == CASE q = "  " -> "" [] q = " hi " -> "hi" [] OTHER -> q

InitRequests ==
    {[NoReq EXCEPT !.op = "init", !.onboarding_id = k[1], !.doc_type = k[2], !.documents = d] :
        k \in Keys, d \in DocumentLists}

ChatRequests ==
    {[NoReq EXCEPT !.op = "chat", !.onboarding_id = k[1], !.doc_type = k[2],
                   !.chat_id = c, !.question = q] :
        k \in Keys, c \in ChatIdInputs, q \in Questions}

Init ==
    /\ meta = EmptyFn
    /\ sessions = EmptyFn
    /\ collections = EmptyFn
    /\ now = 0
    /\ uuids = 0
    /\ pc = [p \in Procs |-> "idle"]
    /\ req = [p \in Procs |-> NoReq]
    /\ loc = [p \in Procs |-> NoLoc]
    /\ result = [p \in Procs |-> NoResult]
    /\ snap = [p \in Procs |-> NoSnap]
    /\ initOk = {}
    /\ calls = EmptyFn

\* The handler of slot p ends with response r.
Respond(p, r) ==
    /\ pc' = [pc EXCEPT ![p] = "done"]
    /\ result' = [result EXCEPT ![p] = r]

Goto(p, label) ==
    /\ pc' = [pc EXCEPT ![p] = label]
    /\ UNCHANGED result

\* Initialization requests that are being served and may still mint a chat id.
MayMint == {p \in Procs : req[p].op = "init" /\ pc[p] = "i_get_meta"}

\* A request arrives at slot p.
Start(p, r) ==
    /\ pc[p] = "idle"
    /\ r.op = "init" => uuids + Cardinality(MayMint) < MaxUuid
    /\ pc' = [pc EXCEPT ![p] = IF r.op = "init" THEN "i_get_meta" ELSE "c_get_meta"]
    /\ req' = [req EXCEPT ![p] = r]
    /\ loc' = [loc EXCEPT ![p] = NoLoc]
    /\ snap' = [snap EXCEPT ![p] = Snapshot]
    /\ UNCHANGED <<meta, sessions, collections, now, uuids, result, initOk, calls>>

\* The response of slot p has been sent; the slot is free again.
Finish(p) ==
    /\ pc[p] = "done"
    /\ pc' = [pc EXCEPT ![p] = "idle"]
    /\ req' = [req EXCEPT ![p] = NoReq]
    /\ loc' = [loc EXCEPT ![p] = NoLoc]
    /\ result' = [result EXCEPT ![p] = NoResult]
    /\ snap' = [snap EXCEPT ![p] = NoSnap]
    /\ UNCHANGED <<meta, sessions, collections, now, uuids, initOk, calls>>

\* The wall clock advances.
Tick ==
    /\ now < MaxClock
    /\ now' = now + 1
    /\ UNCHANGED <<meta, sessions, collections, uuids, pc, req, loc, result, snap, initOk, calls>>

\* ------------------------------------------------ /rag/initialization steps

\* routes.py:115-160: read the metadata; with a record, take its chat_id (or
\* mint one); without, refuse an empty document list, else mint a chat id.
InitGetMeta(p) ==
    /\ pc[p] = "i_get_meta"
    /\ LET key == KeyOf(req[p]) IN
       IF HasMeta(meta, key)
       THEN LET stored == meta[key].chat_id
                minted == ~Truthy(stored)
                chat_id == PyOr(stored, UuidStr(uuids + 1))
            IN  /\ uuids' = IF minted THEN uuids + 1 ELSE uuids
                /\ loc' = [loc EXCEPT ![p].chat_id = chat_id, ![p].metadata = meta[key]]
                /\ Goto(p, "i_ensure_session")
       ELSE IF Len(req[p].documents) = 0
       THEN /\ Respond(p, HTTPException(400, "Please provide documents to ingest."))
            /\ UNCHANGED <<uuids, loc>>
       ELSE /\ uuids' = uuids + 1
            /\ loc' = [loc EXCEPT ![p].chat_id = UuidStr(uuids + 1)]
            /\ Goto(p, "i_create_session")
    /\ UNCHANGED <<meta, sessions, collections, now, req, snap, initOk, calls>>

\* routes.py:124-126: create the session of the chat id unless it exists.
InitEnsureSession(p) ==
    /\ pc[p] = "i_ensure_session"
    /\ sessions' = IF chat_exists(sessions, loc[p].chat_id)
                   THEN sessions
                   ELSE create_session(sessions, loc[p].chat_id)
    /\ Goto(p, "i_upsert_existing")
    /\ UNCHANGED <<meta, collections, now, uuids, req, loc, snap, initOk, calls>>

\* routes.py:129-146: write the chat_id back and answer with it.  A record
\* without vectorstore_path makes SetupResponse fail validation (500).
InitUpsertExisting(p) ==
    /\ pc[p] = "i_upsert_existing"
    /\ LET key == KeyOf(req[p])
           md  == loc[p].metadata
       IN  /\ meta' = upsert_vectorstore_metadata(meta, key, md.vectorstore_path,
                          loc[p].chat_id, md.collection_name, NoneStr, NoneStr, now)
           /\ IF md.vectorstore_path = NoneStr
              THEN /\ Respond(p, HTTPException(500, "Internal server error during RAG initialization"))
                   /\ UNCHANGED initOk
              ELSE /\ Respond(p, SetupResponse("RAG setup completed with existing vectorstore metadata.",
                                               loc[p].chat_id, md.vectorstore_path))
                   /\ initOk' = initOk \cup {key}
    /\ UNCHANGED <<sessions, collections, now, uuids, req, loc, snap, calls>>

\* routes.py:161
InitCreateSession(p) ==
    /\ pc[p] = "i_create_session"
    /\ sessions' = create_session(sessions, loc[p].chat_id)
    /\ Goto(p, "i_embed")
    /\ UNCHANGED <<meta, collections, now, uuids, req, loc, snap, initOk, calls>>

\* routes.py:164-214: split, embed, and test the shape of the vectors.
InitEmbed(p) ==
    /\ pc[p] = "i_embed"
    /\ \E outcome \in EmbedOutcomes :
        LET text_chunks == SplitText(JoinDocs(req[p].documents))
            vectors == get_embeddings_for_texts(text_chunks, outcome)
        IN  /\ loc' = [loc EXCEPT ![p].text_chunks = text_chunks, ![p].vectors = vectors,
                                  ![p].embed_outcome = outcome]
            /\ IF outcome = "raise" /\ Len(text_chunks) > 0
               THEN Respond(p, HTTPException(500, "Embedding error"))
               ELSE IF BadShape(vectors, text_chunks)
               THEN Respond(p, HTTPException(500, "Embedding generation failed or returned unexpected shape."))
               ELSE IF VectorSize(vectors) = 0
               THEN Respond(p, HTTPException(500, "Embedding returned empty vectors"))
               ELSE Goto(p, "i_recreate")
    /\ UNCHANGED <<meta, sessions, collections, now, uuids, req, snap, initOk, calls>>

\* routes.py:217-225 and 249-264: recreate the collection; on success lay
\* the points out in batches for the upsert loop, on failure answer 500
\* with the collection in whatever state the failed call left it.
InitRecreate(p) ==
    /\ pc[p] = "i_recreate"
    /\ \E ok \in BOOLEAN :
        IF ok
        THEN /\ collections' = recreate_collection(collections,
                    CollectionName(req[p].onboarding_id, req[p].doc_type),
                    VectorSize(loc[p].vectors))
             /\ loc' = [loc EXCEPT
                    ![p].batches = BatchesFrom(MakePoints(loc[p].chat_id, loc[p].vectors,
                                                          loc[p].text_chunks), <<>>, batch_size),
                    ![p].bi = 1, ![p].attempt = 0, ![p].backoff = 1, ![p].waits = <<>>,
                    ![p].qdrant_writes = @ + 1]
             /\ Goto(p, "i_upsert")
        ELSE /\ collections' \in RecreateFailures(collections,
                    CollectionName(req[p].onboarding_id, req[p].doc_type),
                    VectorSize(loc[p].vectors))
             /\ Respond(p, HTTPException(500, "Failed to create qdrant collection"))
             /\ UNCHANGED loc
    /\ UNCHANGED <<meta, sessions, now, uuids, req, snap, initOk, calls>>

\* What a failed client.upsert may have stored of its batch: nothing, the
\* first point, or all of it (the response was lost).
PartialWrites(batch) == {{}, {batch[1]}, Range(batch)}

\* A failed client.upsert stored some of its batch and not all of it.
StoredInPart(c, name, batch, written) ==
    name \in DOMAIN c /\ written # {} /\ written # Range(batch)

\* routes.py:228-274, one pass of safe_upsert's loop for the current batch:
\* client.upsert succeeds (next batch, or the loop is over), or fails
\* (attempt += 1; give up at max_retries; else sleep(backoff), backoff *= 2).
InitUpsert(p) ==
    /\ pc[p] = "i_upsert"
    /\ LET name  == CollectionName(req[p].onboarding_id, req[p].doc_type)
           batch == loc[p].batches[loc[p].bi]
       IN  \E ok \in BOOLEAN, written \in PartialWrites(batch) :
            IF ok /\ name \in DOMAIN collections
            THEN /\ written = Range(batch)
                 /\ collections' = upsert_points(collections, name, Range(batch))
                 /\ IF loc[p].bi = Len(loc[p].batches)
                    THEN /\ loc' = [loc EXCEPT ![p].qdrant_writes = @ + 1]
                         /\ Goto(p, "i_save_meta")
                    ELSE /\ loc' = [loc EXCEPT ![p].bi = @ + 1, ![p].attempt = 0,
                                               ![p].backoff = 1, ![p].waits = <<>>,
                                               ![p].qdrant_writes = @ + 1]
                         /\ Goto(p, "i_upsert")
            ELSE /\ collections' = IF name \in DOMAIN collections
                                   THEN upsert_points(collections, name, written)
                                   ELSE collections
                 /\ IF loc[p].attempt + 1 >= max_retries
                    THEN /\ loc' = [loc EXCEPT ![p].attempt = @ + 1, ![p].qdrant_writes = @ + 1]
                         /\ Respond(p, HTTPException(500, "Failed to upsert points into Qdrant"))
                    ELSE /\ loc' = [loc EXCEPT ![p].attempt = @ + 1,
                                               ![p].waits = Append(@, loc[p].backoff),
                                               ![p].backoff = NextBackoff(@),
                                               ![p].qdrant_writes = @ + 1,
                                               ![p].partial = @ \/ StoredInPart(collections, name, batch, written)]
                         /\ Goto(p, "i_upsert")
    /\ UNCHANGED <<meta, sessions, now, uuids, req, snap, initOk, calls>>

\* routes.py:277-315: persist the metadata and answer with the new chat id.
InitSaveMeta(p) ==
    /\ pc[p] = "i_save_meta"
    /\ LET key == KeyOf(req[p])
           collection_name == CollectionName(req[p].onboarding_id, req[p].doc_type)
           vs_path == save_vectorstore_to_disk(req[p].onboarding_id, req[p].doc_type,
                          collection_name, SettingsQdrantUrl, SettingsQdrantApiKey)
       IN  /\ meta' = upsert_vectorstore_metadata(meta, key, vs_path, loc[p].chat_id,
                          collection_name, NoneStr, NoneStr, now)
           /\ Respond(p, SetupResponse("RAG setup completed.", loc[p].chat_id, vs_path))
           /\ initOk' = initOk \cup {key}
    /\ UNCHANGED <<sessions, collections, now, uuids, req, loc, snap, calls>>

InitStep(p) ==
    \/ InitGetMeta(p)
    \/ InitEnsureSession(p)
    \/ InitUpsertExisting(p)
    \/ InitCreateSession(p)
    \/ InitEmbed(p)
    \/ InitRecreate(p)
    \/ InitUpsert(p)
    \/ InitSaveMeta(p)

\* ---------------------------------------------------------- /rag/chat steps

\* What the summarization LLM returns.
Summaries == {"summary"}

\* result.get("answer") of a chain that ran: a text, or nothing.
ChainAnswers == {"It depends."}

\* routes.py:348-351
ChatGetMeta(p) ==
    /\ pc[p] = "c_get_meta"
    /\ IF HasMeta(meta, KeyOf(req[p]))
       THEN Goto(p, "c_chat_exists")
       ELSE Respond(p, HTTPException(400, "Vectorstore metadata not found; run initialization first."))
    /\ UNCHANGED <<meta, sessions, collections, now, uuids, req, loc, snap, initOk, calls>>

\* routes.py:353-360
ChatChatExists(p) ==
    /\ pc[p] = "c_chat_exists"
    /\ IF ~chat_exists(sessions, req[p].chat_id)
       THEN /\ Respond(p, HTTPException(404, "Chat session not found."))
            /\ UNCHANGED loc
       ELSE IF Strip(req[p].question) = ""
       THEN /\ Respond(p, HTTPException(400, "Question cannot be empty."))
            /\ UNCHANGED loc
       ELSE /\ loc' = [loc EXCEPT ![p].question = Strip(req[p].question)]
            /\ Goto(p, "c_summarize")
    /\ UNCHANGED <<meta, sessions, collections, now, uuids, req, snap, initOk, calls>>

\* routes.py:363, ChatHistoryManager.summarize_if_needed(chat_id, 10)
\* (chat_history.py:60-81): nothing to do up to the threshold; above it the
\* LLM summarizes the messages read and they are replaced by the summary,
\* or the LLM fails, which ends the request with 500 (routes.py:399-401).
ChatSummarize(p) ==
    /\ pc[p] = "c_summarize"
    /\ LET messages == get_messages(sessions, req[p].chat_id) IN
       IF ~NeedsSummary(messages, chat_threshold)
       THEN /\ UNCHANGED sessions
            /\ Goto(p, "c_add_human")
       ELSE \/ /\ Respond(p, HTTPException(500, "Internal server error during chat"))
               /\ UNCHANGED sessions
            \/ \E summary \in Summaries :
               /\ sessions' = replace_with_summary(sessions, req[p].chat_id, summary, now)
               /\ Goto(p, "c_add_human")
    /\ UNCHANGED <<meta, collections, now, uuids, req, loc, snap, initOk, calls>>

\* routes.py:364
ChatAddHuman(p) ==
    /\ pc[p] = "c_add_human"
    /\ sessions' = add_message(sessions, req[p].chat_id, "human", loc[p].question, now)
    /\ Goto(p, "c_build")
    /\ UNCHANGED <<meta, collections, now, uuids, req, loc, snap, initOk, calls>>

\* utils.py:201-276, build_rag_chain called from routes.py:367.  With a
\* record, its collection_name is used.  Without one, the vector index is
\* probed for vs_{onboarding_id}_{doc_type}; if that collection exists, a
\* record with chat_id "" is registered and used.
BuildRagChain(p) ==
    /\ pc[p] = "c_build"
    /\ LET key == KeyOf(req[p])
           guessed_collection == CollectionName(req[p].onboarding_id, req[p].doc_type)
           registered == upsert_vectorstore_metadata(meta, key,
                             get_vectorstore_path(req[p].onboarding_id, req[p].doc_type),
                             "", guessed_collection, SettingsQdrantUrl, SettingsQdrantApiKey, now)
           m == IF HasMeta(meta, key) THEN meta
                ELSE IF guessed_collection \in DOMAIN collections THEN registered
                ELSE meta
       IN  /\ meta' = m
           /\ IF ~HasMeta(m, key)
              THEN /\ Respond(p, HTTPException(400, BuildNotFoundDetail))
                   /\ UNCHANGED loc
              ELSE IF ~Truthy(m[key].collection_name)
              THEN /\ Respond(p, HTTPException(500, "Qdrant collection name missing in metadata."))
                   /\ UNCHANGED loc
              ELSE /\ loc' = [loc EXCEPT ![p].collection_name = m[key].collection_name]
                   /\ Goto(p, "c_invoke")
    /\ UNCHANGED <<sessions, collections, now, uuids, req, snap, initOk, calls>>

\* routes.py:370-380: read the history and invoke the chain, which searches
\* the collection and calls the LLM.  The search fails on a missing
\* collection; any step of the chain may fail.
ChatInvoke(p) ==
    /\ pc[p] = "c_invoke"
    /\ \/ /\ Respond(p, HTTPException(500, "RAG chain invocation failed"))
          /\ UNCHANGED loc
       \/ /\ loc[p].collection_name \in DOMAIN collections
          /\ \E a \in ChainAnswers :
             /\ loc' = [loc EXCEPT ![p].answer = PyOr(a, ""),
                                   ![p].messages = get_messages(sessions, req[p].chat_id)]
             /\ Goto(p, "c_add_ai")
    /\ UNCHANGED <<meta, sessions, collections, now, uuids, req, snap, initOk, calls>>

\* routes.py:382-394
ChatAddAi(p) ==
    /\ pc[p] = "c_add_ai"
    /\ sessions' = add_message(sessions, req[p].chat_id, "ai", loc[p].answer, now)
    /\ Respond(p, ChatResponse(loc[p].answer, req[p].chat_id))
    /\ UNCHANGED <<meta, collections, now, uuids, req, loc, snap, initOk, calls>>

ChatStep(p) ==
    \/ ChatGetMeta(p)
    \/ ChatChatExists(p)
    \/ ChatSummarize(p)
    \/ ChatAddHuman(p)
    \/ BuildRagChain(p)
    \/ ChatInvoke(p)
    \/ ChatAddAi(p)

\* ---------------------------------------------------------- specifications

AllIdle == \A q \in Procs : pc[q] = "idle"

\* Initialization requests served one after the other: a request arrives
\* only when no other is being served.
IngestNext ==
    \/ \E r \in InitRequests : AllIdle /\ Start(1, r)
    \/ Finish(1)
    \/ InitStep(1)
    \/ Tick

IngestSpec == Init /\ [][IngestNext]_vars

\* The initialization requests of ChatSpec: no documents, or one short one.
ChatInitRequests == {r \in InitRequests : r.documents \in {<<>>, <<"A">>}}

\* The chat requests of ChatSpec: on the first session minted or on a
\* session that does not exist.
ChatTurnRequests == {r \in ChatRequests : r.chat_id \in {UuidStr(1), "nope"}}

\* Initialization and chat requests served one after the other.
ChatNext ==
    \/ \E r \in ChatInitRequests \cup ChatTurnRequests :
        /\ AllIdle
        /\ r.op = "chat" => Len(get_messages(sessions, r.chat_id)) < MaxHistory
        /\ Start(1, r)
    \/ Finish(1)
    \/ InitStep(1)
    \/ ChatStep(1)
    \/ Tick

ChatSpec == Init /\ [][ChatNext]_vars

\* Initialization requests served one after the other on a clock that
\* stands still.
RetryNext ==
    \/ \E r \in InitRequests : AllIdle /\ Start(1, r)
    \/ Finish(1)
    \/ InitStep(1)

\* The ingestion handler runs on once it was entered: a request that is
\* being served takes its next step.
IngestLive == Init /\ [][RetryNext]_vars /\ WF_vars(InitStep(1))

\* The pair and the session of the long conversation.
TurnKey == <<"t", "page_speed">>

TurnInitRequests == {r \in InitRequests : KeyOf(r) = TurnKey /\ r.documents = <<"A">>}

TurnChatRequests ==
    {r \in ChatRequests :
        KeyOf(r) = TurnKey /\ r.chat_id = UuidStr(1) /\ r.question \in {"hi", " hi "}}

\* One client's conversation of any length on one session, the requests
\* served one after the other, on a clock that stands still.
TurnNext ==
    \/ \E r \in TurnInitRequests \cup TurnChatRequests : AllIdle /\ Start(1, r)
    \/ Finish(1)
    \/ InitStep(1)
    \/ ChatStep(1)

TurnSpec == Init /\ [][TurnNext]_vars

\* The initialization requests of RaceSpec: one short document, for either
\* of the two pairs that share a collection name.
RaceInitRequests == {r \in InitRequests : r.documents = <<"A">>}

\* Initialization requests served at the same time: every slot takes
\* requests and every handler step of one slot may come between two steps
\* of the other.
RaceNext ==
    \/ \E p \in Procs, r \in RaceInitRequests :
        /\ uuids + Cardinality(MayMint) < MaxRaceUuid
        /\ Start(p, r)
    \/ \E p \in Procs : Finish(p)
    \/ \E p \in Procs : InitStep(p)

RaceSpec == Init /\ [][RaceNext]_vars

\* The chat requests of MixSpec: one question on the first session minted,
\* for the first pair.
MixChatRequests ==
    {r \in ChatRequests :
        KeyOf(r) = <<"t", "page_speed">> /\ r.chat_id = UuidStr(1) /\ r.question = "hi"}

\* Initialization and chat requests served at the same time, in any
\* interleaving of their steps.
MixNext ==
    \/ \E p \in Procs, r \in RaceInitRequests :
        /\ \/ uuids + Cardinality(MayMint) < MaxMixUuid
           \/ HasMeta(meta, KeyOf(r)) /\ Truthy(meta[KeyOf(r)].chat_id)
        /\ Start(p, r)
    \/ \E p \in Procs, r \in MixChatRequests :
        /\ Len(get_messages(sessions, r.chat_id)) < MaxHistory
        /\ Start(p, r)
    \/ \E p \in Procs : Finish(p)
    \/ \E p \in Procs : InitStep(p)
    \/ \E p \in Procs : ChatStep(p)

MixSpec == Init /\ [][MixNext]_vars

\* The chat requests of CrossSpec: a question or none, for either pair, on
\* either of the first two sessions minted.
CrossChatRequests ==
    {r \in ChatRequests :
        r.chat_id \in {UuidStr(1), UuidStr(2)} /\ r.question \in {"hi", ""}}

\* Initialization and chat requests for two pairs and two sessions, served
\* one after the other, on a clock that stands still.
CrossNext ==
    \/ \E r \in RaceInitRequests :
        /\ AllIdle
        /\ uuids < MaxCrossUuid
        /\ Start(1, r)
    \/ \E r \in CrossChatRequests :
        /\ AllIdle
        /\ Len(get_messages(sessions, r.chat_id)) < MaxHistory
        /\ Start(1, r)
    \/ Finish(1)
    \/ InitStep(1)
    \/ ChatStep(1)

CrossSpec == Init /\ [][CrossNext]_vars

\* ------------------------------------------ ChatHistoryManager, called directly

\* The session a caller of ChatHistoryManager works on.
HistChatIds == {"s1"}

\* The (role, content) pairs passed to add_message.
HistMessages == {<<"human", "hi">>, <<"ai", "yo">>}

\* The thresholds passed to summarize_if_needed.
Thresholds == {2, chat_threshold}

\* A return value of a ChatHistoryManager method.
Returned(value, messages) ==
    [NoResult EXCEPT !.status = 200, !.detail = value, !.messages = messages]

\* Slot p takes a call, with the stores as they are now.
Call(p, r) ==
    /\ pc[p] = "idle"
    /\ req' = [req EXCEPT ![p] = r]
    /\ snap' = [snap EXCEPT ![p] = Snapshot]

\* chat_history.py:25-32
HistCreateSession(p) ==
    /\ \E c \in HistChatIds :
        /\ Call(p, [NoReq EXCEPT !.op = "create_session", !.chat_id = c])
        /\ sessions' = create_session(sessions, c)
        /\ calls' = IF chat_exists(sessions, c) THEN calls
                    ELSE [x \in DOMAIN calls \cup {c} |-> IF x = c THEN <<>> ELSE calls[x]]
    /\ Respond(p, Returned("None", <<>>))
    /\ UNCHANGED <<meta, collections, now, uuids, loc, initOk>>

\* chat_history.py:35-38
HistGetMessages(p) ==
    /\ \E c \in HistChatIds :
        /\ Call(p, [NoReq EXCEPT !.op = "get_messages", !.chat_id = c])
        /\ Respond(p, Returned("list", get_messages(sessions, c)))
    /\ UNCHANGED <<meta, sessions, collections, now, uuids, loc, initOk, calls>>

\* chat_history.py:41-52
HistAddMessage(p) ==
    /\ \E c \in HistChatIds, m \in HistMessages :
        /\ Len(get_messages(sessions, c)) < MaxMessages
        /\ Call(p, [NoReq EXCEPT !.op = "add_message", !.chat_id = c,
                                 !.role = m[1], !.question = m[2]])
        /\ sessions' = add_message(sessions, c, m[1], m[2], now)
        /\ calls' = IF chat_exists(sessions, c)
                    THEN [calls EXCEPT ![c] = Append(@, [role |-> m[1], content |-> m[2]])]
                    ELSE calls
    /\ Respond(p, Returned("None", <<>>))
    /\ UNCHANGED <<meta, collections, now, uuids, loc, initOk>>

\* chat_history.py:60-62: summarize_if_needed reads the messages and
\* returns False up to the threshold.
HistSummarizeRead(p) ==
    /\ \E c \in HistChatIds, t \in Thresholds :
        /\ Call(p, [NoReq EXCEPT !.op = "summarize_if_needed", !.chat_id = c, !.threshold = t])
        /\ LET messages == get_messages(sessions, c) IN
           IF NeedsSummary(messages, t)
           THEN /\ loc' = [loc EXCEPT ![p].messages = messages]
                /\ Goto(p, "h_sum_replace")
           ELSE /\ UNCHANGED loc
                /\ Respond(p, Returned("False", <<>>))
    /\ UNCHANGED <<meta, sessions, collections, now, uuids, initOk, calls>>

\* chat_history.py:65-81: the LLM call raises, or its summary replaces the
\* messages and summarize_if_needed returns True.
HistSummarizeReplace(p) ==
    /\ pc[p] = "h_sum_replace"
    /\ \/ /\ Respond(p, [NoResult EXCEPT !.status = 500, !.detail = "raise"])
          /\ UNCHANGED <<sessions, calls>>
       \/ \E summary \in Summaries :
          /\ sessions' = replace_with_summary(sessions, req[p].chat_id, summary, now)
          /\ calls' = [x \in DOMAIN calls |-> IF x = req[p].chat_id THEN <<>> ELSE calls[x]]
          /\ Respond(p, Returned("True", <<>>))
    /\ UNCHANGED <<meta, collections, now, uuids, req, loc, snap, initOk>>

\* Direct calls of the ChatHistoryManager methods, one after the other.
HistNext ==
    \/ HistCreateSession(1)
    \/ HistGetMessages(1)
    \/ HistAddMessage(1)
    \/ HistSummarizeRead(1)
    \/ HistSummarizeReplace(1)
    \/ Finish(1)
    \/ Tick

HistSpec == Init /\ [][HistNext]_vars

\* One caller (slot 1) runs summarize_if_needed with a threshold below the
\* endpoint's while another (slot 2) creates the session and appends to it,
\* in any interleaving.
HistRaceNext ==
    \/ HistCreateSession(2)
    \/ HistAddMessage(2) /\ \A c \in DOMAIN sessions' : Len(sessions'[c]) <= MaxRaceMessages
    \/ HistSummarizeRead(1) /\ req'[1].threshold < chat_threshold
    \/ HistSummarizeReplace(1)
    \/ Finish(1)
    \/ Finish(2)

HistRaceSpec == Init /\ [][HistRaceNext]_vars

\* ------------------------------- upsert_vectorstore_metadata, called directly

\* The arguments upsert_vectorstore_metadata is called with.
UpsertCallsFor(k) ==
    {[NoReq EXCEPT !.op = "upsert_metadata", !.onboarding_id = k[1], !.doc_type = k[2],
                   !.vectorstore_path = v, !.chat_id = c, !.collection_name = n,
                   !.qdrant_url = u, !.qdrant_api_key = a] :
        v \in {get_vectorstore_path(k[1], k[2]), "elsewhere"},
        c \in {"", UuidStr(1)},
        n \in {NoneStr, "", CollectionName(k[1], k[2])},
        u \in {NoneStr, SettingsQdrantUrl}, a \in {NoneStr, SettingsQdrantApiKey}}

\* Every combination of arguments for the first pair, and the arguments of
\* the ingestion path (routes.py:290-296) for the second.
UpsertCalls ==
    UpsertCallsFor(<<"t", "page_speed">>)
        \cup {r \in UpsertCallsFor(<<"t_page", "speed">>) :
                /\ r.vectorstore_path = get_vectorstore_path("t_page", "speed")
                /\ r.chat_id = UuidStr(1)
                /\ r.collection_name = CollectionName("t_page", "speed")
                /\ r.qdrant_url = NoneStr /\ r.qdrant_api_key = NoneStr}

\* utils.py:65-98
MetaUpsert(p) ==
    /\ \E r \in UpsertCalls :
        /\ Call(p, r)
        /\ meta' = upsert_vectorstore_metadata(meta, KeyOf(r), r.vectorstore_path, r.chat_id,
                       r.collection_name, r.qdrant_url, r.qdrant_api_key, now)
    /\ Respond(p, Returned("None", <<>>))
    /\ UNCHANGED <<sessions, collections, now, uuids, loc, initOk, calls>>

\* Direct calls of upsert_vectorstore_metadata, one after the other.
MetaNext ==
    \/ MetaUpsert(1)
    \/ Finish(1)
    \/ Tick

MetaSpec == Init /\ [][MetaNext]_vars

\* ------------------------------------------------ build_rag_chain, called directly

\* The calls of build_rag_chain(onboarding_id, doc_type, chat_id, prompt_type).
BuildCalls ==
    {[NoReq EXCEPT !.op = "build_rag_chain", !.onboarding_id = k[1], !.doc_type = k[2],
                   !.chat_id = UuidStr(1)] : k \in Keys}

\* utils.py:262-276 and what follows: with the record that was read, the
\* chain is built on its collection_name; without one the call is refused.
BuildOutcome(m, key) ==
    IF ~HasMeta(m, key)
    THEN HTTPException(400, BuildNotFoundDetail)
    ELSE IF ~Truthy(m[key].collection_name)
    THEN HTTPException(500, "Qdrant collection name missing in metadata.")
    ELSE Returned("chain", <<>>)

\* utils.py:201-204: the call arrives and reads the metadata record; with a
\* record the chain is built, without one the fallback detection starts.
BuildGetMeta(p) ==
    /\ \E r \in BuildCalls : Call(p, r)
    /\ loc' = [loc EXCEPT ![p] = NoLoc]
    /\ IF HasMeta(meta, KeyOf(req'[p]))
       THEN Respond(p, BuildOutcome(meta, KeyOf(req'[p])))
       ELSE Goto(p, "b_probe")
    /\ UNCHANGED <<meta, sessions, collections, now, uuids, initOk, calls>>

\* utils.py:207-249 and 256-260: a Qdrant client is made and asked for the
\* collection vs_{onboarding_id}_{doc_type}.  The client cannot be made
\* (500), the lookup fails or finds nothing (no record: 400), or the
\* collection is found.
BuildProbe(p) ==
    /\ pc[p] = "b_probe"
    /\ LET guessed_collection == CollectionName(req[p].onboarding_id, req[p].doc_type) IN
       \/ /\ Respond(p, HTTPException(500, "Vectorstore metadata not found and failed to connect to Qdrant for fallback detection."))
          /\ UNCHANGED loc
       \/ /\ Respond(p, HTTPException(400, BuildNotFoundDetail))
          /\ UNCHANGED loc
       \/ /\ guessed_collection \in DOMAIN collections
          /\ loc' = [loc EXCEPT ![p].collection_name = guessed_collection]
          /\ Goto(p, "b_register")
    /\ UNCHANGED <<meta, sessions, collections, now, uuids, req, snap, initOk, calls>>

\* utils.py:251-254: the collection that was found is registered, with an
\* empty chat_id.
BuildRegister(p) ==
    /\ pc[p] = "b_register"
    /\ meta' = upsert_vectorstore_metadata(meta, KeyOf(req[p]),
                   get_vectorstore_path(req[p].onboarding_id, req[p].doc_type),
                   "", loc[p].collection_name, SettingsQdrantUrl, SettingsQdrantApiKey, now)
    /\ Goto(p, "b_reread")
    /\ UNCHANGED <<sessions, collections, now, uuids, req, loc, snap, initOk, calls>>

\* utils.py:255 and 262-276: the record is read again and the chain built.
BuildReread(p) ==
    /\ pc[p] = "b_reread"
    /\ Respond(p, BuildOutcome(meta, KeyOf(req[p])))
    /\ UNCHANGED <<meta, sessions, collections, now, uuids, req, loc, snap, initOk, calls>>

BuildStep(p) ==
    \/ BuildGetMeta(p)
    \/ BuildProbe(p)
    \/ BuildRegister(p)
    \/ BuildReread(p)

\* Initialization requests in slot 1 while build_rag_chain is called in
\* slot 2.
FallbackNext ==
    \/ \E r \in RaceInitRequests :
        /\ uuids + Cardinality(MayMint) < MaxRaceUuid
        /\ Start(1, r)
    \/ InitStep(1)
    \/ BuildStep(2)
    \/ Finish(1)
    \/ Finish(2)

FallbackSpec == Init /\ [][FallbackNext]_vars

\* ------------------------------------------- the batch loop, run on its own

\* n chunks of one text.
ChunksOf(n) == [i \in 1..n |-> <<"T", i>>]

\* routes.py:250-258: for n chunks with their vectors and a batch size b
\* (settings.qdrant_upsert_batch_size), the points are laid out in batches.
BatchLayout(p) ==
    /\ \E n \in 1..MaxChunks, b \in 1..MaxBatchSize :
        /\ Call(p, [NoReq EXCEPT !.op = "upsert_batches", !.chunks = n, !.batch_size = b])
        /\ LET text_chunks == ChunksOf(n)
               vectors == get_embeddings_for_texts(text_chunks, "ok")
           IN  loc' = [loc EXCEPT ![p] =
                        [NoLoc EXCEPT !.chat_id = UuidStr(1),
                                      !.text_chunks = text_chunks,
                                      !.vectors = vectors,
                                      !.batches = BatchesFrom(MakePoints(UuidStr(1), vectors, text_chunks), <<>>, b),
                                      !.bi = 1]]
    /\ Goto(p, "l_send")
    /\ UNCHANGED <<meta, sessions, collections, now, uuids, initOk, calls>>

\* routes.py:260-269: the batches are sent one after the other.
BatchSend(p) ==
    /\ pc[p] = "l_send"
    /\ IF loc[p].bi < Len(loc[p].batches)
       THEN /\ loc' = [loc EXCEPT ![p].bi = @ + 1]
            /\ Goto(p, "l_send")
       ELSE /\ Respond(p, Returned("None", <<>>))
            /\ UNCHANGED loc
    /\ UNCHANGED <<meta, sessions, collections, now, uuids, req, snap, initOk, calls>>

BatchNext ==
    \/ BatchLayout(1)
    \/ BatchSend(1)
    \/ Finish(1)

BatchSpec == Init /\ [][BatchNext]_vars

\* ------------------------------------------------------------------ claims

Served(p, op) == pc[p] # "idle" /\ req[p].op = op

Ended(p, op) == pc[p] = "done" /\ req[p].op = op

MetaNotFound == "Vectorstore metadata not found; run initialization first."

UnknownSession(p) == Served(p, "chat") /\ req[p].chat_id \notin DOMAIN sessions

\* C2 as stated: a chat request whose chat_id was never created ends with
\* the "not found" error (404 Chat session not found), whatever the
\* metadata store and the vector index hold.
C2_AlwaysNotFound ==
    \A p \in Procs :
        (UnknownSession(p) /\ pc[p] = "done") => result[p].status = 404

\* C2 amended: a chat request whose chat_id was never created never gets
\* past validation and never succeeds; it ends with 404 (session not found)
\* when the pair has a metadata record, and with 400 (metadata not found)
\* when it has none.
C2_NotFoundIfMeta ==
    \A p \in Procs :
        UnknownSession(p) =>
            /\ pc[p] \in {"c_get_meta", "c_chat_exists", "done"}
            /\ pc[p] = "done" =>
                IF HasMeta(snap[p].meta, KeyOf(req[p]))
                THEN result[p].status = 404
                ELSE result[p].status = 400 /\ result[p].detail = MetaNotFound

\* C2 witness: a request on the unknown chat id has ended with 404 on a
\* pair that has metadata and a vector collection.
C2_Witness ==
    \E p \in Procs :
        /\ UnknownSession(p)
        /\ pc[p] = "done"
        /\ req[p].chat_id = "nope"
        /\ HasMeta(meta, KeyOf(req[p]))
        /\ CollectionName(req[p].onboarding_id, req[p].doc_type) \in DOMAIN collections
        /\ result[p].status = 404

\* A chat request that fails validation, judged on the stores as the
\* request found them.
FailsValidation(p) ==
    /\ Served(p, "chat")
    /\ \/ ~HasMeta(snap[p].meta, KeyOf(req[p]))
       \/ req[p].chat_id \notin DOMAIN snap[p].sessions
       \/ req[p].question \in {"", "  "}

\* C3: a chat request that fails validation ends with a client error (4xx)
\* and the chat history store, the metadata store and the vector index are
\* at every step what they were when the request arrived.
C3_RejectedChatChangesNothing ==
    \A p \in Procs :
        FailsValidation(p) =>
            /\ pc[p] \in {"c_get_meta", "c_chat_exists", "done"}
            /\ meta = snap[p].meta
            /\ sessions = snap[p].sessions
            /\ collections = snap[p].collections
            /\ pc[p] = "done" => result[p].status \in {400, 404}

\* C3 witness: a blank question was refused on an existing session that
\* holds messages, on a pair with metadata.
C3_Witness ==
    \E p \in Procs :
        /\ Ended(p, "chat")
        /\ req[p].question = "  "
        /\ HasMeta(meta, KeyOf(req[p]))
        /\ req[p].chat_id \in DOMAIN sessions
        /\ Len(sessions[req[p].chat_id]) > 0
        /\ result[p].status = 400
        /\ result[p].detail = "Question cannot be empty."

\* The messages of the session of request p, now and when p arrived.
History(p) == get_messages(sessions, req[p].chat_id)

HistoryBefore(p) == get_messages(snap[p].sessions, req[p].chat_id)

\* C4: a summarize_if_needed(chat_id, t) call on an existing session that
\* holds more than t messages returns True and leaves exactly one message,
\* of role ai (or the summarization call raises, and the messages are
\* untouched); on a session that holds t or fewer messages it returns False
\* and leaves the messages as they were.  With t = 10 this is 11 messages
\* collapsing to 1 and 10 messages left alone.
C4_SummarizeThreshold ==
    \A p \in Procs :
        (Served(p, "summarize_if_needed") /\ req[p].chat_id \in DOMAIN snap[p].sessions) =>
            /\ pc[p] = "h_sum_replace" =>
                /\ Len(HistoryBefore(p)) > req[p].threshold
                /\ History(p) = HistoryBefore(p)
            /\ pc[p] = "done" =>
                IF Len(HistoryBefore(p)) > req[p].threshold
                THEN \/ /\ result[p].detail = "True"
                        /\ Len(History(p)) = 1
                        /\ History(p)[1].type = "ai"
                     \/ /\ result[p].detail = "raise"
                        /\ History(p) = HistoryBefore(p)
                ELSE /\ result[p].detail = "False"
                     /\ History(p) = HistoryBefore(p)

\* C4 witness: with threshold 10, a session of 11 messages was collapsed to
\* one ai message and the call returned True.
C4_Witness ==
    \E p \in Procs :
        /\ Ended(p, "summarize_if_needed")
        /\ req[p].threshold = 10
        /\ Len(HistoryBefore(p)) = 11
        /\ result[p].detail = "True"
        /\ Len(History(p)) = 1
        /\ History(p)[1].type = "ai"

\* C5: after N add_message calls made one after the other on an existing
\* session (counted from its creation or its last collapse), get_messages
\* returns those N messages in call order, each with the role and content
\* of its call, after at most the one summary entry, and the timestamps of
\* the returned list never decrease.
C5_CallOrder ==
    \A p \in Procs :
        (Ended(p, "get_messages") /\ req[p].chat_id \in DOMAIN sessions) =>
            LET got  == result[p].messages
                made == calls[req[p].chat_id]
                k    == Len(got) - Len(made)
            IN  /\ k \in {0, 1}
                /\ k = 1 => got[1].type = "ai" /\ got[1].content \in Summaries
                /\ \A i \in 1..Len(made) :
                    /\ got[k + i].type = made[i].role
                    /\ got[k + i].content = made[i].content
                /\ \A i \in 1..(Len(got) - 1) : got[i].timestamp <= got[i + 1].timestamp

\* C5 witness: get_messages returned three messages of three calls, of
\* differing roles, appended at different times.
C5_Witness ==
    \E p \in Procs :
        /\ Ended(p, "get_messages")
        /\ req[p].chat_id \in DOMAIN sessions
        /\ Len(calls[req[p].chat_id]) = 3
        /\ Len(result[p].messages) = 3
        /\ result[p].messages[1].type = "human"
        /\ result[p].messages[2].type = "ai"
        /\ result[p].messages[1].timestamp < result[p].messages[3].timestamp

\* The vectors the embedding step of request p returned are unusable.
UnusableVectors(p) ==
    /\ Served(p, "init")
    /\ loc[p].embed_outcome # "none"
    /\ \/ Len(loc[p].vectors) = 0
       \/ Len(loc[p].vectors) # Len(loc[p].text_chunks)
       \/ loc[p].vectors[1].size = 0

\* C6: when the embedding step gives no vectors, a number of vectors other
\* than the number of chunks, or a first vector of length zero, the
\* ingestion has ended with an error at that step: it made no recreate and
\* no upsert call, the vector index is as the request found it, and there
\* is no metadata record for the pair.
C6_BadEmbeddingAborts ==
    \A p \in Procs :
        UnusableVectors(p) =>
            /\ pc[p] = "done"
            /\ result[p].status = 500
            /\ loc[p].qdrant_writes = 0
            /\ collections = snap[p].collections
            /\ meta = snap[p].meta
            /\ ~HasMeta(meta, KeyOf(req[p]))

\* C6 witness: the embedding gave one vector more than there are chunks,
\* on a pair whose collection holds points of an earlier failed ingestion.
C6_Witness ==
    \E p \in Procs :
        /\ UnusableVectors(p)
        /\ pc[p] = "done"
        /\ loc[p].embed_outcome = "long"
        /\ Len(loc[p].vectors) = Len(loc[p].text_chunks) + 1
        /\ LET name == CollectionName(req[p].onboarding_id, req[p].doc_type) IN
           /\ name \in DOMAIN collections
           /\ collections[name].points # {}

GenerationFailed(p) ==
    Ended(p, "chat") /\ result[p].detail = "RAG chain invocation failed"

\* The human entry of the question of request p is at position i.
HumanCopyAt(p, i) ==
    /\ i \in 1..Len(History(p))
    /\ History(p)[i].type = "human"
    /\ History(p)[i].content = Strip(req[p].question)

\* Request p repeats a request whose generation step failed: the pair has
\* metadata and the session ends with the human entry of p's question.
IsRetry(p) ==
    /\ Served(p, "chat")
    /\ HasMeta(snap[p].meta, KeyOf(req[p]))
    /\ Len(HistoryBefore(p)) > 0
    /\ HistoryBefore(p)[Len(HistoryBefore(p))].type = "human"
    /\ HistoryBefore(p)[Len(HistoryBefore(p))].content = Strip(req[p].question)

\* The number of stored messages the turn of p keeps before its own.
KeptBefore(p) == IF Len(HistoryBefore(p)) > 10 THEN 1 ELSE Len(HistoryBefore(p))

\* The part of C7 on the failed turn: it answers with an error, the human
\* entry it appended is the last message, placed after what the session
\* held (or after the summary that replaced it), no ai entry follows, and
\* the metadata store and the vector index are as the request found them.
C7_FailedTurn ==
    \A p \in Procs :
        GenerationFailed(p) =>
            /\ result[p].status = 500
            /\ Len(History(p)) = KeptBefore(p) + 1
            /\ HumanCopyAt(p, Len(History(p)))
            /\ Len(HistoryBefore(p)) <= 10 =>
                   SubSeq(History(p), 1, Len(HistoryBefore(p))) = HistoryBefore(p)
            /\ Len(HistoryBefore(p)) > 10 => History(p)[1].type = "ai"
            /\ meta = snap[p].meta
            /\ collections = snap[p].collections

\* C7 as stated: the failed turn leaves the human message last and the
\* other stores alone, and every retry of the request, once ended, has
\* appended a second copy of the human question.
C7_RetryAlwaysAppends ==
    /\ C7_FailedTurn
    /\ \A p \in Procs :
        (IsRetry(p) /\ pc[p] = "done") =>
            /\ Len(History(p)) > KeptBefore(p)
            /\ HumanCopyAt(p, KeptBefore(p) + 1)

\* C7 amended: the failed turn leaves the human message last and the other
\* stores alone.  A retry on a session of at most 10 messages appends a
\* second copy of the human question right after the first.  A retry on a
\* session of more than 10 messages first summarizes: if that call fails
\* the retry ends with a server error and the messages are untouched,
\* otherwise the copy is appended after the summary.
C7_RetryAppendsUnlessSummaryFails ==
    /\ C7_FailedTurn
    /\ \A p \in Procs :
        (IsRetry(p) /\ pc[p] \in {"c_build", "c_invoke", "c_add_ai", "done"}) =>
            IF Len(HistoryBefore(p)) <= 10
            THEN /\ HumanCopyAt(p, Len(HistoryBefore(p)))
                 /\ HumanCopyAt(p, Len(HistoryBefore(p)) + 1)
            ELSE \/ /\ pc[p] = "done"
                    /\ result[p].status = 500
                    /\ result[p].detail = "Internal server error during chat"
                    /\ History(p) = HistoryBefore(p)
                 \/ /\ History(p)[1].type = "ai"
                    /\ HumanCopyAt(p, 2)

\* C7 witness: the retry of a turn that failed at generation failed there
\* again, and the session ends with two human entries of the question.
C7_Witness ==
    \E p \in Procs :
        /\ IsRetry(p)
        /\ GenerationFailed(p)
        /\ Len(History(p)) = Len(HistoryBefore(p)) + 1
        /\ HumanCopyAt(p, Len(History(p)) - 1)
        /\ HumanCopyAt(p, Len(History(p)))

\* C8 as stated: a chat request on a pair without metadata record whose
\* collection vs_{tenant_id}_{doc_type} exists, on an existing session and
\* with a non-empty question, ends with a metadata record registered for
\* the pair and is not refused for missing metadata.
C8_FallbackRegisters ==
    \A p \in Procs :
        ( /\ Ended(p, "chat")
          /\ ~HasMeta(snap[p].meta, KeyOf(req[p]))
          /\ CollectionName(req[p].onboarding_id, req[p].doc_type) \in DOMAIN snap[p].collections
          /\ req[p].chat_id \in DOMAIN snap[p].sessions
          /\ Strip(req[p].question) # "" ) =>
            /\ HasMeta(meta, KeyOf(req[p]))
            /\ result[p].detail # MetaNotFound

\* The ingestion of request p has upserted its last batch.
IngestionComplete(p) ==
    /\ Served(p, "init")
    /\ \/ pc[p] = "i_save_meta"
       \/ pc[p] = "done" /\ result[p].detail = "RAG setup completed."

\* C9: when the ingestion path of a request served alone has run to
\* completion, the collection of the pair holds exactly one point per chunk
\* of this run, with the chunk's text and vector, and none of the points
\* the collection held when the request arrived.
C9_ExactlyThisRun ==
    \A p \in Procs :
        IngestionComplete(p) =>
            LET name   == CollectionName(req[p].onboarding_id, req[p].doc_type)
                chunks == loc[p].text_chunks
                points == collections[name].points
                before == IF name \in DOMAIN snap[p].collections
                          THEN snap[p].collections[name].points ELSE {}
            IN  /\ Len(chunks) > 0
                /\ Cardinality(points) = Len(chunks)
                /\ \A i \in 1..Len(chunks) :
                    \E q \in points : /\ q.id = <<loc[p].chat_id, i>>
                                      /\ q.text = chunks[i]
                                      /\ q.vector = loc[p].vectors[i]
                /\ points \cap before = {}

\* C9 witness: the long document was ingested in two batches into a
\* collection that held points of an earlier failed ingestion.
C9_Witness ==
    \E p \in Procs :
        /\ IngestionComplete(p)
        /\ pc[p] = "done"
        /\ req[p].documents = <<"L">>
        /\ Len(loc[p].batches) = 2
        /\ LET name == CollectionName(req[p].onboarding_id, req[p].doc_type) IN
           /\ name \in DOMAIN snap[p].collections
           /\ snap[p].collections[name].points # {}

UpsertAborted(p) ==
    Ended(p, "init") /\ result[p].detail = "Failed to upsert points into Qdrant"

\* In the retry loop fewer than 3 attempts have failed, and the waits made
\* so far for the batch are 1 second, then 2.
C10_InLoop ==
    \A p \in Procs :
        (Served(p, "init") /\ pc[p] = "i_upsert") =>
            /\ loc[p].attempt \in 0..2
            /\ loc[p].waits = SubSeq(<<1, 2>>, 1, loc[p].attempt)
            /\ loc[p].bi \in 1..Len(loc[p].batches)

\* When the loop gave up, 3 attempts had failed with waits of 1 and 2
\* seconds between them, the request ended with the upsert error, no point
\* of a later batch is in the collection and the pair has no metadata.
C10_OnAbort ==
    \A p \in Procs :
        UpsertAborted(p) =>
            LET name == CollectionName(req[p].onboarding_id, req[p].doc_type) IN
            /\ result[p].status = 500
            /\ loc[p].attempt = 3
            /\ loc[p].waits = <<1, 2>>
            /\ ~HasMeta(meta, KeyOf(req[p]))
            /\ meta = snap[p].meta
            /\ \A j \in (loc[p].bi + 1)..Len(loc[p].batches) :
                   Range(loc[p].batches[j]) \cap collections[name].points = {}

\* A step that stays in the loop on the same batch is one more failed attempt.
C10_Step ==
    \A p \in Procs :
        (pc[p] = "i_upsert" /\ pc'[p] = "i_upsert"
            /\ loc'[p] # loc[p] /\ loc'[p].bi = loc[p].bi) =>
                loc'[p].attempt = loc[p].attempt + 1

\* C10: each batch gets at most 3 upsert attempts, with a wait of 1 second
\* after the first failed attempt and twice that after the second; when
\* all 3 fail the ingestion ends with the upsert error, no later batch is
\* upserted and no metadata record is written; and the retry loop of every
\* batch comes to an end.
C10_BoundedRetry ==
    /\ [](C10_InLoop /\ C10_OnAbort)
    /\ [][C10_Step]_vars
    /\ \A p \in Procs : \A b \in 1..2 :
        (pc[p] = "i_upsert" /\ loc[p].bi = b) ~> ~(pc[p] = "i_upsert" /\ loc[p].bi = b)

\* C10 witness: the first batch of the long document failed 3 times, part
\* of it was written, and nothing of the second batch is in the collection.
C10_Witness ==
    \E p \in Procs :
        /\ UpsertAborted(p)
        /\ req[p].documents = <<"L">>
        /\ loc[p].bi = 1
        /\ Len(loc[p].batches) = 2
        /\ loc[p].attempt = 3
        /\ collections[CollectionName(req[p].onboarding_id, req[p].doc_type)].points # {}

\* An initialization request with an empty document list.
EmptyInit(p) == Served(p, "init") /\ req[p].documents = <<>>

\* C11: an initialization call with an empty document list, served alone,
\* ends with the client error 400 when the pair has no metadata record, and
\* then creates no chat session, mints no chat id, leaves the vector index
\* alone and writes no metadata; when the pair has a record the call
\* succeeds (200).
C11_EmptyDocuments ==
    \A p \in Procs :
        EmptyInit(p) =>
            IF KeyOf(req[p]) \in DOMAIN snap[p].meta
            THEN /\ pc[p] \in {"i_get_meta", "i_ensure_session", "i_upsert_existing", "done"}
                 /\ pc[p] = "done" => result[p].status = 200
            ELSE /\ pc[p] \in {"i_get_meta", "done"}
                 /\ sessions = snap[p].sessions
                 /\ collections = snap[p].collections
                 /\ meta = snap[p].meta
                 /\ loc[p].chat_id = NoneStr
                 /\ pc[p] = "done" =>
                        /\ result[p].status = 400
                        /\ result[p].detail = "Please provide documents to ingest."

\* C11 witness: the empty call was refused on a pair without record whose
\* collection and session were left by an earlier failed ingestion.
C11_Witness ==
    \E p \in Procs :
        /\ EmptyInit(p)
        /\ pc[p] = "done"
        /\ result[p].status = 400
        /\ KeyOf(req[p]) \notin DOMAIN meta
        /\ CollectionName(req[p].onboarding_id, req[p].doc_type) \in DOMAIN collections
        /\ DOMAIN sessions # {}

\* Slots p and q have both answered an initialization request for the
\* same pair, and neither found a record for it when it arrived.
BothInitialized(p, q) ==
    /\ p # q
    /\ Ended(p, "init") /\ Ended(q, "init")
    /\ KeyOf(req[p]) = KeyOf(req[q])
    /\ KeyOf(req[p]) \notin DOMAIN snap[p].meta
    /\ KeyOf(req[q]) \notin DOMAIN snap[q].meta
    /\ result[p].status = 200 /\ result[q].status = 200

\* C12 as stated: when two initialization requests for the same pair,
\* arriving on stores without a record for it, have both succeeded, they
\* returned the same chat_id and the metadata record holds that chat_id.
C12_SameChatId ==
    \A p, q \in Procs :
        BothInitialized(p, q) =>
            /\ result[p].chat_id = result[q].chat_id
            /\ meta[KeyOf(req[p])].chat_id = result[p].chat_id

\* C13: create_session on an absent chat_id creates a session with an
\* empty message list; on an existing session, whatever it holds and
\* however often it is called, it leaves the messages as they were; no
\* other session is touched.
C13_CreateSessionIdempotent ==
    \A p \in Procs :
        Ended(p, "create_session") =>
            LET c == req[p].chat_id IN
            /\ c \in DOMAIN sessions
            /\ sessions[c] = IF c \in DOMAIN snap[p].sessions
                             THEN snap[p].sessions[c] ELSE <<>>
            /\ \A x \in DOMAIN sessions \ {c} :
                   x \in DOMAIN snap[p].sessions /\ sessions[x] = snap[p].sessions[x]

\* C13 witness: create_session was called on a session that holds three
\* messages, and they are still there.
C13_Witness ==
    \E p \in Procs :
        /\ Ended(p, "create_session")
        /\ req[p].chat_id \in DOMAIN snap[p].sessions
        /\ Len(snap[p].sessions[req[p].chat_id]) = 3
        /\ Len(sessions[req[p].chat_id]) = 3

\* A record without its updated_at.
Undated(rec) == [rec EXCEPT !.updated_at = 0]

\* The value an optional field holds after an upsert that was given arg.
Kept(arg, stored) == IF arg \notin {NoneStr, ""} THEN arg ELSE stored

\* C14: an upsert_vectorstore_metadata call for a pair without record
\* inserts one and sets created_at; a call for a pair with a record writes
\* the supplied vectorstore_path, chat_id and updated_at, keeps created_at,
\* and keeps collection_name, qdrant_url and qdrant_api_key at their stored
\* values unless they were supplied; the records of other pairs are not
\* touched; and the same call made again leaves the same record, apart
\* from updated_at.
C14_UpsertIdempotent ==
    \A p \in Procs :
        Ended(p, "upsert_metadata") =>
            LET key   == KeyOf(req[p])
                was   == snap[p].meta
                rec   == meta[key]
                again == upsert_vectorstore_metadata(meta, key, req[p].vectorstore_path,
                             req[p].chat_id, req[p].collection_name, req[p].qdrant_url,
                             req[p].qdrant_api_key, now)
            IN  /\ DOMAIN meta = DOMAIN was \cup {key}
                /\ \A k \in DOMAIN was \ {key} : meta[k] = was[k]
                /\ rec.onboarding_id = key[1] /\ rec.doc_type = key[2]
                /\ rec.vectorstore_path = req[p].vectorstore_path
                /\ rec.chat_id = req[p].chat_id
                /\ IF key \in DOMAIN was
                   THEN /\ rec.created_at = was[key].created_at
                        /\ rec.updated_at >= was[key].updated_at
                        /\ rec.collection_name = Kept(req[p].collection_name, was[key].collection_name)
                        /\ rec.qdrant_url = Kept(req[p].qdrant_url, was[key].qdrant_url)
                        /\ rec.qdrant_api_key = Kept(req[p].qdrant_api_key, was[key].qdrant_api_key)
                   ELSE /\ rec.created_at = rec.updated_at
                        /\ rec.collection_name = Kept(req[p].collection_name, NoneStr)
                        /\ rec.qdrant_url = Kept(req[p].qdrant_url, NoneStr)
                        /\ rec.qdrant_api_key = Kept(req[p].qdrant_api_key, NoneStr)
                /\ DOMAIN again = DOMAIN meta
                /\ \A k \in DOMAIN meta : Undated(again[k]) = Undated(meta[k])
                /\ again[key].updated_at = now

\* C14 witness: a later upsert without collection name and connection
\* descriptor changed the chat_id of a record that has them, at a later
\* time than the record was created.
C14_Witness ==
    \E p \in Procs :
        /\ Ended(p, "upsert_metadata")
        /\ KeyOf(req[p]) \in DOMAIN snap[p].meta
        /\ req[p].collection_name = NoneStr
        /\ req[p].qdrant_url = NoneStr
        /\ meta[KeyOf(req[p])].collection_name = "vs_t_page_speed"
        /\ meta[KeyOf(req[p])].qdrant_url = SettingsQdrantUrl
        /\ meta[KeyOf(req[p])].chat_id # snap[p].meta[KeyOf(req[p])].chat_id
        /\ meta[KeyOf(req[p])].created_at < meta[KeyOf(req[p])].updated_at

\* The metadata store holds one record per pair, stored under its own
\* pair, and a record that names a collection names vs_{tenant_id}_{doc_type}.
C15_RecordsWellFormed ==
    \A k \in DOMAIN meta :
        /\ k \in Keys
        /\ meta[k].onboarding_id = k[1]
        /\ meta[k].doc_type = k[2]
        /\ Truthy(meta[k].collection_name) =>
               meta[k].collection_name = "vs_" \o k[1] \o "_" \o k[2]

\* No step removes a record.
C15_NoRemoval == \A k \in DOMAIN meta : k \in DOMAIN meta'

Ingesting(p) == Served(p, "init") /\ KeyOf(req[p]) \notin DOMAIN snap[p].meta

\* While an ingestion has not answered with success no record is written.
\* Once it is past the recreate step the collection holds no point of an
\* earlier run.  When it has answered with success, the record is there
\* and every batch is in the collection.
C16_Inv ==
    \A p \in Procs :
        Ingesting(p) =>
            LET key  == KeyOf(req[p])
                name == CollectionName(req[p].onboarding_id, req[p].doc_type)
            IN  /\ (pc[p] # "done" \/ result[p].status # 200) => meta = snap[p].meta
                /\ pc[p] \in {"i_upsert", "i_save_meta"} =>
                       /\ loc[p].qdrant_writes >= 1
                       /\ \A q \in collections[name].points : q.id[1] = loc[p].chat_id
                /\ (pc[p] = "done" /\ result[p].status = 200) =>
                       /\ key \in DOMAIN meta
                       /\ meta[key].chat_id = loc[p].chat_id
                       /\ loc[p].bi = Len(loc[p].batches)
                       /\ \A j \in 1..Len(loc[p].batches) :
                              Range(loc[p].batches[j]) \subseteq collections[name].points

\* The order of the steps: the record is written by the last step of a
\* handler only; the upsert loop is entered from the recreate step, the
\* recreate step from the embedding step, and the metadata step from the
\* upsert of the last batch.
C16_Step ==
    /\ meta' # meta =>
           \E p \in Procs : pc[p] \in {"i_save_meta", "i_upsert_existing"} /\ pc'[p] = "done"
    /\ \A p \in Procs :
        /\ (pc'[p] = "i_recreate" /\ pc[p] # "i_recreate") => pc[p] = "i_embed"
        /\ (pc'[p] = "i_upsert" /\ pc[p] # "i_upsert") => pc[p] = "i_recreate"
        /\ (pc'[p] = "i_save_meta" /\ pc[p] # "i_save_meta") =>
               pc[p] = "i_upsert" /\ loc[p].bi = Len(loc[p].batches)
        /\ (Ingesting(p) /\ pc[p] = "i_get_meta" /\ pc'[p] # "i_get_meta") =>
               pc'[p] \in {"i_create_session", "done"}

\* C16: on the ingestion path the metadata record is written only after
\* the collection was recreated and every batch was upserted; an ingestion
\* that ends earlier leaves the pair without record, and a later
\* initialization call for the pair, finding none, goes through the whole
\* ingestion again, the recreate step first.
C16_MetadataLast == []C16_Inv /\ [][C16_Step]_vars

\* C16 witness: an initialization call found no record but the points of
\* an earlier, failed ingestion, and has just recreated the collection.
C16_Witness ==
    \E p \in Procs :
        LET name == CollectionName(req[p].onboarding_id, req[p].doc_type) IN
        /\ Ingesting(p)
        /\ pc[p] = "i_upsert"
        /\ loc[p].attempt = 0 /\ loc[p].bi = 1
        /\ name \in DOMAIN snap[p].collections
        /\ snap[p].collections[name].points # {}
        /\ collections[name].points = {}

\* Slot p has returned True from summarize_if_needed and nothing was
\* appended since its replace, and the add_message call of slot q on the
\* same session found the messages exactly as p had read them: q appended
\* after p's read and before p's replace.
AppendedBetween(p, q) ==
    /\ Ended(p, "summarize_if_needed") /\ result[p].detail = "True"
    /\ Ended(q, "add_message")
    /\ req[q].chat_id = req[p].chat_id
    /\ req[p].chat_id \in DOMAIN snap[q].sessions
    /\ snap[q].sessions[req[p].chat_id] = loc[p].messages
    /\ calls[req[p].chat_id] = <<>>

\* C17: a message appended to a session after summarize_if_needed has read
\* it and before it replaces it is lost.  The text that was summarized is
\* the messages as read, one shorter than the stored list the replace
\* found, and the stored history afterwards is the summary entry alone.
C17_AppendIsLost ==
    \A p, q \in Procs :
        AppendedBetween(p, q) =>
            /\ loc[p].messages = HistoryBefore(p)
            /\ Len(History(p)) = 1
            /\ History(p)[1].type = "ai"
            /\ History(p)[1].content \in Summaries
            /\ History(p)[1].content # req[q].question

\* C17 witness: three messages were read, a fourth was appended, and the
\* replace left the summary of the three as the only message.
C17_Witness ==
    \E p, q \in Procs :
        /\ AppendedBetween(p, q)
        /\ Len(loc[p].messages) = 3
        /\ req[q].role = "human" /\ req[q].question = "hi"
        /\ Len(History(p)) = 1

\* The fallback registration of call p writes the record of its pair, which
\* exists with a non-empty chat_id.
FallbackOnValid(p) ==
    /\ pc[p] = "b_register"
    /\ pc'[p] = "b_reread"
    /\ HasMeta(meta, KeyOf(req[p]))
    /\ Truthy(meta[KeyOf(req[p])].chat_id)

\* C18 as stated: in every interleaving of build_rag_chain with an
\* initialization, a metadata record whose chat_id is non-empty has the
\* same chat_id after the fallback registration has run.
C18_FallbackKeepsChatId ==
    [][\A p \in Procs :
        FallbackOnValid(p) => meta'[KeyOf(req[p])].chat_id = meta[KeyOf(req[p])].chat_id]_vars

\* The ingestion of request p is between its recreate_collection and the
\* end of its upsert loop (routes.py:217-274).
InWriteWindow(p) == Served(p, "init") /\ pc[p] = "i_upsert"

\* C19 as stated: no two ingestion runs are between their recreate and the
\* end of their batched upsert on the same collection at the same time.
C19_SingleWriter ==
    \A p, q \in Procs :
        (p # q /\ InWriteWindow(p) /\ InWriteWindow(q)) =>
            CollectionName(req[p].onboarding_id, req[p].doc_type)
                # CollectionName(req[q].onboarding_id, req[q].doc_type)

\* C20 as stated: whenever a metadata record with a collection_name exists
\* for a pair, a collection of that name exists in the vector index.
C20_RecordHasCollection ==
    \A k \in DOMAIN meta :
        Truthy(meta[k].collection_name) => meta[k].collection_name \in DOMAIN collections

\* C21: an ingestion served alone that ends in success, whatever attempts
\* failed on the way and whatever part of a batch they stored, leaves
\* exactly one point per chunk in the collection: the ids of a batch are
\* the same on every attempt, so no chunk is stored twice.  (As many points
\* as chunks, with as many ids, and their texts are the chunks.)
C21_NoDuplicateChunks ==
    \A p \in Procs :
        IngestionComplete(p) =>
            LET points == collections[CollectionName(req[p].onboarding_id, req[p].doc_type)].points
            IN  /\ Cardinality(points) = Len(loc[p].text_chunks)
                /\ Cardinality({q.id : q \in points}) = Len(loc[p].text_chunks)
                /\ {q.text : q \in points} = Range(loc[p].text_chunks)

\* C21 witness: the long document was ingested with success after a failed
\* attempt had stored the first point of a batch and not the rest.
C21_Witness ==
    \E p \in Procs :
        /\ IngestionComplete(p)
        /\ pc[p] = "done"
        /\ loc[p].partial
        /\ Len(loc[p].text_chunks) = batch_size + 1

\* new is old with one message appended at the end.
IsAppend(old, new) ==
    Len(new) = Len(old) + 1 /\ SubSeq(new, 1, Len(old)) = old

\* new is a single message of role ai.
IsCollapse(new) == Len(new) = 1 /\ new[1].type = "ai"

C22_Step ==
    \A c \in DOMAIN sessions \cap DOMAIN sessions' :
        sessions'[c] # sessions[c] =>
            \/ IsAppend(sessions[c], sessions'[c])
            \/ IsCollapse(sessions'[c])

\* C22: every step that changes the messages of a session either appends
\* one message at the end, keeping the earlier messages and their order,
\* or replaces them all by a single message of role ai.
C22_AppendOrCollapse == [][C22_Step]_vars

\* C22 witness: a chat turn on a session of 11 messages has collapsed them
\* into the summary and appended its question.
C22_Witness ==
    \E p \in Procs :
        /\ Served(p, "chat")
        /\ pc[p] = "c_build"
        /\ Len(HistoryBefore(p)) = chat_threshold + 1
        /\ Len(History(p)) = 2
        /\ IsCollapse(<<History(p)[1]>>)
        /\ History(p)[1].content \in Summaries
        /\ HumanCopyAt(p, 2)

\* The steps a session takes: it is created empty, is never removed and
\* never emptied again, and is collapsed only from more than the threshold.
C23_Step ==
    /\ DOMAIN sessions \subseteq DOMAIN sessions'
    /\ \A c \in DOMAIN sessions' :
        IF c \notin DOMAIN sessions
        THEN sessions'[c] = <<>>
        ELSE /\ sessions[c] # <<>> => sessions'[c] # <<>>
             /\ Len(sessions'[c]) <= Len(sessions[c]) /\ sessions'[c] # sessions[c] =>
                    Len(sessions[c]) > chat_threshold /\ IsCollapse(sessions'[c])

\* A chat turn served alone that is past summarize_if_needed has collapsed
\* the history if it held more than the threshold, and has kept it
\* otherwise; then it appends to what it kept.
C23_Turn ==
    \A p \in Procs :
        Served(p, "chat") =>
            /\ pc[p] = "c_add_human" =>
                /\ Len(HistoryBefore(p)) > chat_threshold => IsCollapse(History(p))
                /\ Len(HistoryBefore(p)) <= chat_threshold => History(p) = HistoryBefore(p)
            /\ pc[p] \in {"c_build", "c_invoke", "c_add_ai"} =>
                Len(History(p)) = KeptBefore(p) + 1
            /\ pc[p] = "done" /\ result[p].status = 200 =>
                Len(History(p)) = KeptBefore(p) + 2

\* C23: a session goes from absent to created (empty), to active, to
\* summarized, and never back to absent; after a collapse chat turns keep
\* appending, and the next turn that finds more than the threshold
\* collapses the history again.
C23_SessionLifecycle == []C23_Turn /\ [][C23_Step]_vars

\* C23 witness: a chat turn has collapsed a history that began with the
\* summary of an earlier collapse.
C23_Witness ==
    \E p \in Procs :
        /\ Served(p, "chat")
        /\ pc[p] = "c_add_human"
        /\ Len(HistoryBefore(p)) > chat_threshold
        /\ IsCollapse(<<HistoryBefore(p)[1]>>)
        /\ HistoryBefore(p)[1].content \in Summaries
        /\ \E i \in 2..Len(HistoryBefore(p)) : HistoryBefore(p)[i].type = "human"
        /\ IsCollapse(History(p))

\* The steps of a chat request in the order the handler takes them; any of
\* them may end the request instead.
ChatOrder ==
    {<<"c_get_meta", "c_chat_exists">>, <<"c_chat_exists", "c_summarize">>,
     <<"c_summarize", "c_add_human">>, <<"c_add_human", "c_build">>,
     <<"c_build", "c_invoke">>, <<"c_invoke", "c_add_ai">>, <<"c_add_ai", "done">>}

\* A step of chat turn p follows the order, and changes the messages of its
\* session only by the collapse of what the session held before the turn
\* (in which the turn's question is not yet stored), then by the append of
\* the question, then by the append of the answer it returns.
C24_Step ==
    \A p \in Procs :
        (Served(p, "chat") /\ pc'[p] # pc[p]) =>
            LET c == req[p].chat_id IN
            /\ <<pc[p], pc'[p]>> \in ChatOrder \/ pc'[p] = "done" \/ (pc[p] = "done" /\ pc'[p] = "idle")
            /\ sessions' # sessions =>
                \/ /\ <<pc[p], pc'[p]>> = <<"c_summarize", "c_add_human">>
                   /\ sessions[c] = HistoryBefore(p)
                   /\ Len(sessions[c]) > chat_threshold
                   /\ IsCollapse(sessions'[c])
                \/ /\ <<pc[p], pc'[p]>> = <<"c_add_human", "c_build">>
                   /\ IsAppend(sessions[c], sessions'[c])
                   /\ sessions'[c][Len(sessions'[c])].type = "human"
                   /\ sessions'[c][Len(sessions'[c])].content = Strip(req[p].question)
                \/ /\ <<pc[p], pc'[p]>> = <<"c_add_ai", "done">>
                   /\ IsAppend(sessions[c], sessions'[c])
                   /\ sessions'[c][Len(sessions'[c])].type = "ai"
                   /\ sessions'[c][Len(sessions'[c])].content = result'[p].answer
                   /\ result'[p].status = 200

\* After a successful turn served alone the last two stored messages are
\* the question and the answer that was returned.
C24_LastTwo ==
    \A p \in Procs :
        (Ended(p, "chat") /\ result[p].status = 200) =>
            /\ Len(History(p)) >= 2
            /\ HumanCopyAt(p, Len(History(p)) - 1)
            /\ History(p)[Len(History(p))].type = "ai"
            /\ History(p)[Len(History(p))].content = result[p].answer

\* C24: a chat turn that passes validation runs summarize_if_needed, the
\* append of the human message, retrieval and generation, the append of
\* the ai message and the return, in this order; the summary is made of
\* what was stored before the turn, and a successful turn leaves the
\* question and the returned answer as the last two messages.
C24_TurnOrder == []C24_LastTwo /\ [][C24_Step]_vars

\* C24 witness: a successful turn that collapsed 11 messages and then
\* stored its question and its answer after the summary.
C24_Witness ==
    \E p \in Procs :
        /\ Ended(p, "chat")
        /\ result[p].status = 200
        /\ Len(HistoryBefore(p)) = chat_threshold + 1
        /\ Len(History(p)) = 3
        /\ History(p)[1].content \in Summaries
        /\ HumanCopyAt(p, 2)
        /\ History(p)[3].content = result[p].answer

\* C25: n chunks and a batch size b give ceil(n/b) batches; every batch
\* but the last holds b points and the last between 1 and b; the batches
\* in order hold the points in chunk order, each chunk once, and point i
\* has vector i and the text of chunk i.
C25_Batches ==
    \A p \in Procs :
        Served(p, "upsert_batches") =>
            LET n  == req[p].chunks
                b  == req[p].batch_size
                bs == loc[p].batches
            IN  /\ Len(bs) = (n + b - 1) \div b
                /\ \A j \in 1..(Len(bs) - 1) : Len(bs[j]) = b
                /\ Len(bs[Len(bs)]) \in 1..b
                /\ \A j \in 1..Len(bs) : \A k \in 1..Len(bs[j]) :
                    LET i == (j - 1) * b + k IN
                    /\ i \in 1..n
                    /\ bs[j][k].id = <<loc[p].chat_id, i>>
                    /\ bs[j][k].vector = loc[p].vectors[i]
                    /\ bs[j][k].text = loc[p].text_chunks[i]
                /\ (Len(bs) - 1) * b + Len(bs[Len(bs)]) = n

\* C25 witness: 7 chunks with batch size 3 were sent in batches of 3, 3
\* and 1.
C25_Witness ==
    \E p \in Procs :
        /\ Ended(p, "upsert_batches")
        /\ req[p].chunks = 7 /\ req[p].batch_size = 3
        /\ Len(loc[p].batches) = 3
        /\ loc[p].bi = 3
        /\ Len(loc[p].batches[3]) = 1

\* C26: in a sequence of chat turns on one session served one after the
\* other, with the endpoint's threshold of 10, no session ever holds more
\* than 12 messages, whether the turns succeed or fail.
C26_AtMostTwelve ==
    \A c \in DOMAIN sessions : Len(sessions[c]) <= chat_threshold + 2

\* C26 witness: a turn that found 10 messages has succeeded and the session
\* holds 12, among them the question of an earlier turn whose generation
\* failed (two human messages in a row).
C26_Witness ==
    \E p \in Procs :
        /\ Ended(p, "chat")
        /\ result[p].status = 200
        /\ Len(HistoryBefore(p)) = chat_threshold
        /\ Len(History(p)) = chat_threshold + 2
        /\ \E i \in 1..(Len(History(p)) - 1) :
            History(p)[i].type = "human" /\ History(p)[i + 1].type = "human"

\* C27: in every state reached by initialization requests and calls of
\* build_rag_chain with its fallback registration, in any interleaving, the
\* chat_id of every metadata record is the empty string or the id of a
\* session that exists in the chat history store.
C27_ChatIdEmptyOrSession ==
    \A k \in DOMAIN meta :
        meta[k].chat_id = "" \/ meta[k].chat_id \in DOMAIN sessions

\* C27 witness: one pair's record was written by an initialization with the
\* id of its session, the other pair's by the fallback with no chat id.
C27_Witness ==
    /\ \E p \in Procs : Ended(p, "build_rag_chain") /\ result[p].detail = "chain"
    /\ \E k1, k2 \in DOMAIN meta :
        /\ meta[k1].chat_id = ""
        /\ meta[k2].chat_id \in DOMAIN sessions

SummarizationFailed(p) ==
    Ended(p, "chat") /\ result[p].detail = "Internal server error during chat"

\* The step in which summarize_if_needed raises ends the turn with a
\* server error and writes nothing.
C28_Step ==
    \A p \in Procs :
        (Served(p, "chat") /\ pc[p] = "c_summarize" /\ pc'[p] = "done") =>
            /\ result'[p].status = 500
            /\ sessions' = sessions
            /\ get_messages(sessions', req[p].chat_id) = HistoryBefore(p)

C28_Unchanged ==
    \A p \in Procs :
        SummarizationFailed(p) =>
            /\ result[p].status = 500
            /\ History(p) = HistoryBefore(p)

\* C28: a chat turn (served alone) whose summarization call fails ends
\* with a server error and leaves the messages of the session exactly as
\* they were before the turn: not replaced, and the question not appended.
C28_SummaryFailureKeepsHistory == []C28_Unchanged /\ [][C28_Step]_vars

\* C28 witness: the summarization of 11 messages failed, the turn ended
\* with 500 and the 11 messages are stored as before.
C28_Witness ==
    \E p \in Procs :
        /\ SummarizationFailed(p)
        /\ result[p].status = 500
        /\ Len(HistoryBefore(p)) = chat_threshold + 1
        /\ History(p) = HistoryBefore(p)

\* Request p was rejected by the checks at the head of the chat handler.
RejectedAs(p, status, detail) ==
    Ended(p, "chat") /\ result[p].status = status /\ result[p].detail = detail

PastValidation(p) ==
    Served(p, "chat") /\ pc[p] \notin {"c_get_meta", "c_chat_exists"}

\* The outcome of validation is fixed by whether the pair has a record,
\* whether the session named in the request exists, and the question; the
\* chat_id stored in the record has no part in it.
C29_Outcome ==
    \A p \in Procs :
        PastValidation(p) =>
            IF ~HasMeta(snap[p].meta, KeyOf(req[p]))
            THEN RejectedAs(p, 400, MetaNotFound)
            ELSE IF req[p].chat_id \notin DOMAIN snap[p].sessions
            THEN RejectedAs(p, 404, "Chat session not found.")
            ELSE IF Strip(req[p].question) = ""
            THEN RejectedAs(p, 400, "Question cannot be empty.")
            ELSE /\ ~RejectedAs(p, 400, MetaNotFound)
                 /\ ~RejectedAs(p, 404, "Chat session not found.")
                 /\ ~RejectedAs(p, 400, "Question cannot be empty.")

\* An accepted request writes to the session it names and to no other.
C29_Session ==
    \A p \in Procs :
        PastValidation(p) =>
            /\ \A c \in DOMAIN sessions : c # req[p].chat_id => sessions[c] = snap[p].sessions[c]
            /\ pc[p] \in {"c_build", "c_invoke", "c_add_ai"} =>
                /\ Len(sessions[req[p].chat_id]) = Len(snap[p].sessions[req[p].chat_id]) + 1
                /\ sessions[req[p].chat_id][Len(sessions[req[p].chat_id])].content = Strip(req[p].question)

\* C29: whether a chat request is accepted does not depend on the chat_id
\* stored in the metadata record of its pair; a request naming an existing
\* session is accepted for every pair that has a record, and appends to
\* the session it names.
C29_StoredChatIdIgnored == C29_Outcome /\ C29_Session

\* C29 witness: a request for a pair whose record holds another chat id
\* was accepted and has appended its question to the session it named.
C29_Witness ==
    \E p \in Procs :
        /\ Served(p, "chat")
        /\ pc[p] = "c_build"
        /\ Truthy(meta[KeyOf(req[p])].chat_id)
        /\ meta[KeyOf(req[p])].chat_id # req[p].chat_id
        /\ req[p].chat_id = UuidStr(2)
        /\ Len(sessions[req[p].chat_id]) = 1
        /\ sessions[req[p].chat_id][1].content = "hi"

\* The points a successful ingestion of the documents docs leaves, in the
\* run that minted chat id run.
PointsOfRun(run, docs) ==
    LET text_chunks == SplitText(JoinDocs(docs))
    IN  Range(MakePoints(run, get_embeddings_for_texts(text_chunks, "ok"), text_chunks))

\* C30 as stated: whenever a pair has a metadata record, the collection the
\* record names holds the complete chunk set of one ingestion run: it is
\* not empty, not partial, and holds no points of a second run.
C30_CompleteSingleRun ==
    \A k \in DOMAIN meta :
        Truthy(meta[k].collection_name) =>
            /\ meta[k].collection_name \in DOMAIN collections
            /\ \E n \in 1..MaxUuid, docs \in DocumentLists :
                /\ collections[meta[k].collection_name].points # {}
                /\ collections[meta[k].collection_name].points = PointsOfRun(UuidStr(n), docs)

====
